---- MODULE Spec2Model ----
(***************************************************************************)
(* Model of the WebSpeechSynthesis class                                   *)
(* (src/components/ThreeD/audio/WebSpeechSynthesis.ts).                    *)
(*                                                                         *)
(* The session object is driven by its callers (generateSpeech, stop,      *)
(* dispose) and by the callbacks the host delivers on the single event     *)
(* loop: the continuation of audioContext.resume(), the engine's           *)
(* voiceschanged notification, the player's onload, and the end / error    *)
(* events of every utterance handed to speak().                            *)
(*                                                                         *)
(* A generateSpeech call is identified by its call number; the utterance   *)
(* and the player a call constructs carry the same number, 0 stands for    *)
(* null.                                                                   *)
(***************************************************************************)
EXTENDS Integers, FiniteSets, Sequences, TLC

\* ---------------------------------------------------------------- bounds
MaxCalls == 2
MaxVoicesChanged == 1

Calls == 1..MaxCalls

\* Playback rates are held as integers in units of 1/RateUnit, so that
\* 0.1, 0.5 and 1 + pitch/12 for a whole pitch are exact.
RateUnit == 120

\* Arguments tried for setPitch (semitones) and setPlaybackRate (in
\* 1/RateUnit: 0, 1.5 and 100).
Pitches == {-24, 0, 6, 24}
Rates == {0, 180, 12000}

Outcomes ==
  { "unborn", "pending", "resolved",
    "EnvironmentUnavailable", "AlreadyInProgress", "ComponentsUninitialized",
    "SourceError", "PlayerNotInitialized", "SynthesisFailed", "RoutingFailed",
    "Cancelled" }

VARIABLES
  windowDefined,    \* typeof window !== 'undefined' at this moment
  synth,            \* this.synth is non-null
  audioContext,     \* "null" | "open" | "closed"
  analyser,         \* "null" | "live" | "disposed"
  utterance,        \* this.utterance: 0 or the call that constructed it
  player,           \* this.player: 0 or the call that constructed it
  isGenerating,
  isCancelled,
  onvoiceschanged,  \* synth.onvoiceschanged has been assigned
  voices,           \* length of synth.getVoices()
  voice,            \* voice[u]: utterance u has voice = voices[0]
  queue,            \* queue[u]: speak(u) commands whose end/error is still due
  resumePending,    \* calls whose audioContext.resume() has not settled
  loadPending,      \* players whose onload has not fired
  disposedPlayers,  \* players released by dispose()
  outcome,          \* outcome[c]: state of the promise returned to call c
  resolvedWith,     \* resolvedWith[c]: player handed to the caller of c
  nextCall,         \* number of the next generateSpeech call
  vchanges,         \* voiceschanged notifications delivered so far
  playbackRate,     \* playbackRate[p]: playbackRate of player p, in 1/RateUnit
  rate,             \* rate[u]: rate field of utterance u, in 1/RateUnit
  \* ---- observation of the run (written, never read, by the operations)
  last,             \* the step just taken: [op, call, flag, raised]
  readySeen,        \* readySeen[c]: onload of c's player has fired
  endSeen,          \* endSeen[c]: an end event of c's utterance has fired
  cancelledEndSeen, \* cancelledEndSeen[c]: such an end event found isCancelled set
  errorSeen,        \* errorSeen[c]: an error event of c's utterance has fired
  stopRequested,    \* stopRequested[c]: stop() ran while c was pending, before node-ready
  routingFailure,   \* routingFailure[c]: "none" | "source" | "resumeSync" | "resumeAsync"
  speakCount,       \* speakCount[u]: speak(u) commands issued
  unvoicedSpeak     \* unvoicedSpeak[u]: speak(u) was issued while voice[u] was unset

session == <<windowDefined, synth, audioContext, analyser, utterance, player,
             isGenerating, isCancelled, onvoiceschanged>>
host    == <<voices, voice, queue, resumePending, loadPending, disposedPlayers,
             vchanges>>
calls   == <<outcome, resolvedWith, nextCall>>
controls == <<playbackRate, rate>>
observe == <<last, readySeen, endSeen, cancelledEndSeen, errorSeen, stopRequested, routingFailure,
             speakCount, unvoicedSpeak>>
vars    == <<session, host, calls, controls, observe>>

\* The record of a step: the operation or callback; the call, the object
\* numbered after the call, or the numeric argument it is about; one flag of
\* the step; and whether the operation raised a TypeError on a null handle.
StepRaised(op, c, f, r) == [op |-> op, call |-> c, flag |-> f, raised |-> r]

Step(op, c, f) == StepRaised(op, c, f, FALSE)

\* ------------------------------------------------------------------ Init
\* State after `new WebSpeechSynthesis()`: the browser components exist iff
\* a window was defined when the constructor ran; window.speechSynthesis is
\* undefined in a browser without the Web Speech API.
Init ==
  /\ windowDefined \in BOOLEAN
  /\ synth \in (IF windowDefined THEN BOOLEAN ELSE {FALSE})
  /\ audioContext = IF windowDefined THEN "open" ELSE "null"
  /\ analyser = IF windowDefined THEN "live" ELSE "null"
  /\ utterance = 0
  /\ player = 0
  /\ isGenerating = FALSE
  /\ isCancelled = FALSE
  /\ onvoiceschanged = FALSE
  /\ voices \in {0, 1}
  /\ voice = [u \in Calls |-> FALSE]
  /\ queue = [u \in Calls |-> 0]
  /\ resumePending = {}
  /\ loadPending = {}
  /\ disposedPlayers = {}
  /\ outcome = [c \in Calls |-> "unborn"]
  /\ resolvedWith = [c \in Calls |-> 0]
  /\ nextCall = 1
  /\ vchanges = 0
  /\ playbackRate = [p \in Calls |-> RateUnit]
  /\ rate = [u \in Calls |-> RateUnit]
  /\ last = Step("new", 0, FALSE)
  /\ readySeen = [c \in Calls |-> FALSE]
  /\ endSeen = [c \in Calls |-> FALSE]
  /\ cancelledEndSeen = [c \in Calls |-> FALSE]
  /\ errorSeen = [c \in Calls |-> FALSE]
  /\ stopRequested = [c \in Calls |-> FALSE]
  /\ routingFailure = [c \in Calls |-> "none"]
  /\ speakCount = [u \in Calls |-> 0]
  /\ unvoicedSpeak = [u \in Calls |-> FALSE]

\* --------------------------------------------------------------- helpers
\* A promise whose later settlements overwrite the first one.
SettleAlways(o, c, v) == [o EXCEPT ![c] = v]

\* resolve / reject of the promise of call c: only the first settlement of
\* a promise takes effect.
Settle(o, c, v) == IF o[c] = "pending" THEN [o EXCEPT ![c] = v] ELSE o

\* synth.speak(u): the engine queues u; one end or error event is due per
\* speak command.
Speak(u) ==
  /\ queue' = [queue EXCEPT ![u] = @ + 1]
  /\ speakCount' = [speakCount EXCEPT ![u] = @ + 1]

\* Value of this.utterance.voice / speak bookkeeping for one speak(u).
SpeakObserved(u, voiced) ==
  unvoicedSpeak' = [unvoicedSpeak EXCEPT ![u] = @ \/ ~voiced]

\* ------------------------------------------------------- generateSpeech
\* The flags written ahead of the in-progress check.
EntryFlagsBeforeGate(refused) == <<TRUE, FALSE>>

\* An accepted call that leaves the cancel flag as it finds it.
EntryFlagsKeepCancel(refused) ==
  IF refused THEN <<isGenerating, isCancelled>> ELSE <<TRUE, isCancelled>>

\* Lines 45-50: the flags after the entry of a call; a refused call throws
\* before it writes anything.
EntryFlags(refused) ==
  IF refused THEN <<isGenerating, isCancelled>> ELSE <<TRUE, FALSE>>

\* Line 53: a required component is missing.
ComponentsMissing == ~synth \/ audioContext = "null"

\* generateSpeech(text), with the two synchronous failures the host can
\* produce inside the promise executor: createMediaStreamSource throwing and
\* audioContext.resume() throwing.
GenerateSpeech(sourceThrows, resumeThrows) ==
  LET c == nextCall IN
  /\ nextCall <= MaxCalls
  /\ nextCall' = nextCall + 1
  /\ last' = Step("generateSpeech", c, FALSE)
  /\ UNCHANGED controls
  /\ UNCHANGED <<windowDefined, synth, audioContext, analyser, voices, voice,
                 queue, disposedPlayers, vchanges, resolvedWith, readySeen,
                 endSeen, cancelledEndSeen, errorSeen, stopRequested, speakCount, unvoicedSpeak>>
  /\ IF ~windowDefined
       THEN \* line 41: thrown before anything is touched
            /\ outcome' = [outcome EXCEPT ![c] = "EnvironmentUnavailable"]
            /\ UNCHANGED <<utterance, player, isGenerating, isCancelled,
                           onvoiceschanged, resumePending, loadPending,
                           routingFailure>>
       ELSE
         LET refused == isGenerating
             flags   == EntryFlags(refused)
         IN
         /\ isGenerating' = flags[1]
         /\ isCancelled' = flags[2]
         /\ IF refused
              THEN \* line 46
                   /\ outcome' = [outcome EXCEPT ![c] = "AlreadyInProgress"]
                   /\ UNCHANGED <<utterance, player, onvoiceschanged,
                                  resumePending, loadPending, routingFailure>>
              ELSE IF ComponentsMissing
              THEN \* lines 53-56
                   /\ outcome' = [outcome EXCEPT ![c] = "ComponentsUninitialized"]
                   /\ UNCHANGED <<utterance, player, onvoiceschanged,
                                  resumePending, loadPending, routingFailure>>
              ELSE
                   \* line 58: the utterance and its callbacks
                   /\ utterance' = c
                   /\ IF sourceThrows
                        THEN \* line 71 throws inside the executor: the
                             \* promise rejects with the thrown error
                             /\ outcome' = [outcome EXCEPT ![c] = "SourceError"]
                             /\ routingFailure' = [routingFailure EXCEPT ![c] = "source"]
                             /\ UNCHANGED <<player, onvoiceschanged,
                                            resumePending, loadPending>>
                        ELSE \* lines 77-107
                             /\ player' = c
                             /\ loadPending' = loadPending \cup {c}
                             /\ onvoiceschanged' = TRUE
                             /\ IF resumeThrows
                                  THEN \* lines 114-118
                                       /\ outcome' = [outcome EXCEPT ![c] = "RoutingFailed"]
                                       /\ routingFailure' = [routingFailure EXCEPT ![c] = "resumeSync"]
                                       /\ UNCHANGED resumePending
                                  ELSE /\ outcome' = [outcome EXCEPT ![c] = "pending"]
                                       /\ resumePending' = resumePending \cup {c}
                                       /\ UNCHANGED routingFailure

\* ------------------------------------------- audioContext.resume() settles
\* Lines 111-113: the continuation speaks whatever this.utterance is now.
ResumeResolved(c) ==
  /\ c \in resumePending
  /\ audioContext = "open"
  /\ resumePending' = resumePending \ {c}
  /\ Speak(utterance)
  /\ SpeakObserved(utterance, voice[utterance])
  /\ last' = Step("resumed", c, FALSE)
  /\ UNCHANGED controls
  /\ UNCHANGED <<session, voices, voice, loadPending, disposedPlayers, vchanges,
                 calls, readySeen, endSeen, cancelledEndSeen, errorSeen, stopRequested,
                 routingFailure>>

\* The promise of resume() rejects (always so on a closed context): there is
\* no rejection handler on line 111, nothing runs.
ResumeRejected(c) ==
  /\ c \in resumePending
  /\ resumePending' = resumePending \ {c}
  /\ routingFailure' = [routingFailure EXCEPT ![c] = "resumeAsync"]
  /\ last' = Step("resumeRejected", c, FALSE)
  /\ UNCHANGED controls
  /\ UNCHANGED <<session, voices, voice, queue, loadPending, disposedPlayers,
                 vchanges, calls, readySeen, endSeen, cancelledEndSeen, errorSeen, stopRequested,
                 speakCount, unvoicedSpeak>>

\* ------------------------------------------------ synth.onvoiceschanged
\* Lines 101-107: the engine announces a voice list of length n.
VoicesChanged(n) ==
  /\ vchanges < MaxVoicesChanged
  /\ vchanges' = vchanges + 1
  /\ voices' = n
  /\ last' = Step("voiceschanged", utterance, onvoiceschanged /\ n > 0)
  /\ UNCHANGED controls
  /\ IF onvoiceschanged /\ n > 0
       THEN /\ voice' = [voice EXCEPT ![utterance] = TRUE]
            /\ Speak(utterance)
            /\ SpeakObserved(utterance, TRUE)
       ELSE UNCHANGED <<voice, queue, speakCount, unvoicedSpeak>>
  /\ UNCHANGED <<session, resumePending, loadPending, disposedPlayers, calls,
                 readySeen, endSeen, cancelledEndSeen, errorSeen, stopRequested, routingFailure>>

\* ------------------------------------------------------- utterance events
\* An onend that resolves the promise when the request was not cancelled.
OnEndResolves(cancelled) == IF cancelled THEN "Cancelled" ELSE "resolved"

\* An onend that never rejects.
OnEndSilent(cancelled) == "none"

\* An onerror that only clears the flag.
OnErrorSilent == "none"

\* Lines 59-64: what onend does to the promise, given this.isCancelled.
OnEndOutcome(cancelled) == IF cancelled THEN "Cancelled" ELSE "none"

\* Lines 65-68: what onerror does to the promise.
OnErrorOutcome == "SynthesisFailed"

SettleWith(c, v) ==
  outcome' = IF v = "none" THEN outcome ELSE Settle(outcome, c, v)

UtteranceEnd(u) ==
  /\ queue[u] > 0
  /\ queue' = [queue EXCEPT ![u] = @ - 1]
  /\ isGenerating' = FALSE
  /\ SettleWith(u, OnEndOutcome(isCancelled))
  /\ endSeen' = [endSeen EXCEPT ![u] = TRUE]
  /\ cancelledEndSeen' = [cancelledEndSeen EXCEPT ![u] = @ \/ isCancelled]
  /\ last' = Step("onend", u, isCancelled)
  /\ UNCHANGED controls
  /\ UNCHANGED <<windowDefined, synth, audioContext, analyser, utterance, player,
                 isCancelled, onvoiceschanged, voices, voice, resumePending,
                 loadPending, disposedPlayers, vchanges, resolvedWith, nextCall,
                 readySeen, errorSeen, stopRequested, routingFailure,
                 speakCount, unvoicedSpeak>>

UtteranceError(u) ==
  /\ queue[u] > 0
  /\ queue' = [queue EXCEPT ![u] = @ - 1]
  /\ isGenerating' = FALSE
  /\ SettleWith(u, OnErrorOutcome)
  /\ errorSeen' = [errorSeen EXCEPT ![u] = TRUE]
  /\ last' = Step("onerror", u, isCancelled)
  /\ UNCHANGED controls
  /\ UNCHANGED <<windowDefined, synth, audioContext, analyser, utterance, player,
                 isCancelled, onvoiceschanged, voices, voice, resumePending,
                 loadPending, disposedPlayers, vchanges, resolvedWith, nextCall,
                 readySeen, endSeen, cancelledEndSeen, stopRequested, routingFailure,
                 speakCount, unvoicedSpeak>>

\* --------------------------------------------------------- Player onload
\* Lines 80-97: the onload closure of the player built by call p.
OnLoadOutcome ==
  IF player = 0 \/ analyser = "null" THEN "PlayerNotInitialized" ELSE "resolved"

NodeReady(p) ==
  /\ p \in loadPending
  /\ loadPending' = loadPending \ {p}
  /\ SettleWith(p, OnLoadOutcome)
  /\ resolvedWith' = IF outcome[p] = "pending" /\ OnLoadOutcome = "resolved"
                       THEN [resolvedWith EXCEPT ![p] = player]
                       ELSE resolvedWith
  /\ readySeen' = [readySeen EXCEPT ![p] = TRUE]
  /\ last' = Step("onload", p, isCancelled)
  /\ UNCHANGED controls
  /\ UNCHANGED <<session, voices, voice, queue, resumePending, disposedPlayers,
                 vchanges, nextCall, endSeen, cancelledEndSeen, errorSeen, stopRequested,
                 routingFailure, speakCount, unvoicedSpeak>>

\* ------------------------------------------------------------------ stop
\* Lines 148-151: the cancel flag after stop().
StopCancelled == IF isGenerating THEN TRUE ELSE isCancelled

\* this.synth.cancel() on a null synth raises a TypeError.
StopThrows == isGenerating /\ ~synth

\* Line 150: synth.cancel() has been commanded.
StopCancelIssued == isGenerating /\ synth

\* Lines 152-154: the player that player.stop() has halted, 0 for none.
StopHalted == IF StopThrows THEN 0 ELSE player

StopObserved ==
  stopRequested' = [c \in Calls |->
                      stopRequested[c] \/ (outcome[c] = "pending" /\ ~readySeen[c])]

Stop ==
  /\ isCancelled' = StopCancelled
  /\ StopObserved
  /\ last' = StepRaised("stop", StopHalted, StopCancelIssued, StopThrows)
  /\ UNCHANGED controls
  /\ UNCHANGED <<windowDefined, synth, audioContext, analyser, utterance, player,
                 isGenerating, onvoiceschanged, host, calls, readySeen, endSeen,
                 cancelledEndSeen, errorSeen, routingFailure, speakCount, unvoicedSpeak>>

\* --------------------------------------------------------------- dispose
\* Lines 192-199; a TypeError raised by stop() or by a null analyser ends
\* the method at that line.
DisposeThrows == StopThrows \/ analyser = "null"

Dispose ==
  /\ isCancelled' = StopCancelled
  /\ StopObserved
  /\ last' = StepRaised("dispose", StopHalted, StopCancelIssued, DisposeThrows)
  /\ UNCHANGED controls
  /\ IF StopThrows
       THEN UNCHANGED <<disposedPlayers, analyser, audioContext>>
       ELSE /\ disposedPlayers' = IF player # 0 THEN disposedPlayers \cup {player}
                                               ELSE disposedPlayers
            /\ analyser' = IF analyser = "null" THEN "null" ELSE "disposed"
            /\ audioContext' = IF audioContext = "null" THEN "null" ELSE "closed"
  /\ UNCHANGED <<windowDefined, synth, utterance, player, isGenerating,
                 onvoiceschanged, voices, voice, queue, resumePending,
                 loadPending, vchanges, calls, readySeen, endSeen, cancelledEndSeen, errorSeen,
                 routingFailure, speakCount, unvoicedSpeak>>

\* ------------------------------------------------------ playback controls
\* Math.max(lo, Math.min(hi, x)).
Min(a, b) == IF a < b THEN a ELSE b
Max(a, b) == IF a > b THEN a ELSE b
Clamp(lo, hi, x) == Max(lo, Min(hi, x))

\* A pitch mapping without the clamp.
PitchRateUnclamped(pitch) == RateUnit + (pitch * RateUnit) \div 12

\* Line 172: Math.max(0.5, Math.min(2, 1 + pitch / 12)).
PitchRate(pitch) ==
  Clamp(RateUnit \div 2, 2 * RateUnit, RateUnit + (pitch * RateUnit) \div 12)

\* A rate clamp without the lower limit.
PlaybackRateNoFloor(r) == Min(10 * RateUnit, r)

\* Lines 182 and 185: Math.max(0.1, Math.min(10, rate)).
PlaybackRate(r) == Clamp(RateUnit \div 10, 10 * RateUnit, r)

\* Lines 140-142: this.player?.seek(time).
Seek ==
  /\ last' = Step("seek", player, player # 0)
  /\ UNCHANGED <<session, host, calls, controls, readySeen, endSeen,
                 cancelledEndSeen, errorSeen, stopRequested, routingFailure,
                 speakCount, unvoicedSpeak>>

\* Line 161: this.analyser.getValue() raises a TypeError on a null analyser.
GetWaveformDataThrows == analyser = "null"

\* The step records whether a buffer was returned and whether the call
\* ended in the TypeError.
GetWaveformData ==
  /\ last' = StepRaised("getWaveformData", 0, ~GetWaveformDataThrows,
                        GetWaveformDataThrows)
  /\ UNCHANGED <<session, host, calls, controls, readySeen, endSeen,
                 cancelledEndSeen, errorSeen, stopRequested, routingFailure,
                 speakCount, unvoicedSpeak>>

\* Lines 170-174.
SetPitch(pitch) ==
  /\ playbackRate' = IF player # 0
                       THEN [playbackRate EXCEPT ![player] = PitchRate(pitch)]
                       ELSE playbackRate
  /\ last' = Step("setPitch", pitch, player # 0)
  /\ UNCHANGED <<session, host, calls, rate, readySeen, endSeen,
                 cancelledEndSeen, errorSeen, stopRequested, routingFailure,
                 speakCount, unvoicedSpeak>>

\* Lines 180-187.
SetPlaybackRate(r) ==
  /\ playbackRate' = IF player # 0
                       THEN [playbackRate EXCEPT ![player] = PlaybackRate(r)]
                       ELSE playbackRate
  /\ rate' = IF utterance # 0
               THEN [rate EXCEPT ![utterance] = PlaybackRate(r)]
               ELSE rate
  /\ last' = Step("setPlaybackRate", r, player # 0)
  /\ UNCHANGED <<session, host, calls, readySeen, endSeen,
                 cancelledEndSeen, errorSeen, stopRequested, routingFailure,
                 speakCount, unvoicedSpeak>>

\* ------------------------------------------------------------------ Next
Next ==
  \/ \E st \in BOOLEAN, rt \in BOOLEAN : GenerateSpeech(st, rt)
  \/ \E c \in Calls : ResumeResolved(c)
  \/ \E c \in Calls : ResumeRejected(c)
  \/ \E n \in {0, 1} : VoicesChanged(n)
  \/ \E u \in Calls : UtteranceEnd(u)
  \/ \E u \in Calls : UtteranceError(u)
  \/ \E p \in Calls : NodeReady(p)
  \/ Stop
  \/ Dispose

Spec == Init /\ [][Next]_vars

\* The session under its playback controls: requests that are spoken and
\* end, teardown, and the control surface.
NextControls ==
  \/ \E st \in BOOLEAN, rt \in BOOLEAN : GenerateSpeech(st, rt)
  \/ \E c \in Calls : ResumeResolved(c)
  \/ \E u \in Calls : UtteranceEnd(u)
  \/ Dispose
  \/ Seek
  \/ GetWaveformData
  \/ \E pitch \in Pitches : SetPitch(pitch)
  \/ \E r \in Rates : SetPlaybackRate(r)

SpecControls == Init /\ [][NextControls]_vars

\* ================================================================ claims
InFlight == {c \in Calls : outcome[c] = "pending"}

\* A step that is a generateSpeech call (only generateSpeech advances nextCall).
CallStep == nextCall' # nextCall

OnEndStep(u) == last'.op = "onend" /\ last'.call = u /\ queue'[u] < queue[u]

\* C1: at no point are two generateSpeech calls in flight (accepted and
\* their promise not yet settled) at once.
C1_SingleFlight == Cardinality(InFlight) <= 1

\* C2: a generateSpeech call made while isGenerating is true is rejected
\* with AlreadyInProgress and changes neither the session (flags, utterance,
\* player), nor what the engine and the audio graph have been asked to do,
\* nor the outcome of any other call.
C2_RefusedNoSideEffects ==
  [][(CallStep /\ isGenerating) =>
       /\ outcome'[nextCall] = "AlreadyInProgress"
       /\ \A d \in Calls \ {nextCall} : outcome'[d] = outcome[d]
       /\ UNCHANGED <<session, host, resolvedWith, speakCount>>]_vars

C2_Witness ==
  \E c, d \in Calls :
    /\ outcome[c] = "pending" /\ isGenerating /\ isCancelled
    /\ outcome[d] = "AlreadyInProgress"
    /\ last.op = "generateSpeech" /\ last.call = d

C4_FirstEventSettles ==
  \A c \in Calls :
    (readySeen[c] \/ endSeen[c] \/ errorSeen[c]) => outcome[c] # "pending"

\* C4 (amended): once node-ready, an utterance error, or an utterance end
\* that found the cancel flag set has occurred for a request, the request is
\* no longer pending (an utterance end that finds the cancel flag clear
\* settles nothing).
C4_SettlingEventSettles ==
  \A c \in Calls :
    (readySeen[c] \/ cancelledEndSeen[c] \/ errorSeen[c]) => outcome[c] # "pending"

C4_Witness ==
  \E c \in Calls :
    /\ errorSeen[c] /\ ~readySeen[c] /\ ~cancelledEndSeen[c]
    /\ outcome[c] = "SynthesisFailed"

\* C5: at the moment a generateSpeech call resolves successfully,
\* isGenerating is false and isCancelled is false.
C5_SuccessPostcondition ==
  \A c \in Calls :
    (last.op = "onload" /\ last.call = c /\ outcome[c] = "resolved")
      => (~isGenerating /\ ~isCancelled)

\* C6: a promise is resolved only by the onload of the call's own player;
\* the end and error events of an utterance leave every promise as it was
\* or reject it, so an end event that arrives before node-ready does not
\* resolve the call.
C6_ResolvedOnlyByNodeReady ==
  [][\A c \in Calls :
       /\ (outcome[c] # "resolved" /\ outcome'[c] = "resolved")
            => (last'.op = "onload" /\ last'.call = c)
       /\ (last'.op \in {"onend", "onerror"} /\ outcome'[c] # outcome[c])
            => outcome'[c] \in {"Cancelled", "SynthesisFailed"}]_vars

C6_Witness ==
  \E c \in Calls :
    /\ last.op = "onend" /\ last.call = c
    /\ ~readySeen[c]
    /\ outcome[c] = "pending"

\* C7: a promise is settled at most once: once a call has an outcome, no
\* later step (stop, a cancelled end, an error) changes it.
C7_SettledOnce ==
  [][\A c \in Calls :
       outcome[c] \notin {"unborn", "pending"} => outcome'[c] = outcome[c]]_vars

C7_Witness ==
  \E c \in Calls :
    /\ outcome[c] = "resolved"
    /\ last.call = c
    /\ \/ last.op = "onerror"
       \/ last.op = "onend" /\ last.flag

\* C8: no speak command is issued for an utterance whose voice has not been
\* set from the engine's voice list.
C8_VoiceBeforeSpeak == \A u \in Calls : ~unvoicedSpeak[u]

\* C9: whenever the audio routing of a call could not be established
\* (createMediaStreamSource threw, resume() threw, or the promise of
\* resume() was rejected), the call is rejected with RoutingFailed.
C9_RoutingFailureRejects ==
  \A c \in Calls : routingFailure[c] # "none" => outcome[c] = "RoutingFailed"

\* C10 (as stated): in every reachable state isCancelled is true only if
\* isGenerating is true.
C10_CancelledOnlyWhileGenerating == isCancelled => isGenerating

\* C10 (amended): isCancelled becomes true only in a stop() made while
\* isGenerating is true (it may stay true after isGenerating has gone
\* false); every accepted generateSpeech call sets it to false on entry; and
\* a call is rejected with Cancelled only if stop() ran after the call was
\* accepted.
C10_CancelFlagDiscipline ==
  /\ [](\A c \in Calls : outcome[c] = "Cancelled" => stopRequested[c])
  /\ [][/\ (~isCancelled /\ isCancelled')
             => (isGenerating /\ last'.op \in {"stop", "dispose"})
        /\ (CallStep /\ windowDefined /\ ~isGenerating) => ~isCancelled']_vars

C10_Witness ==
  \E c, d \in Calls :
    /\ c < d
    /\ outcome[c] = "Cancelled"
    /\ outcome[d] = "pending"
    /\ ~isCancelled /\ isGenerating

\* Players constructed so far (line 77): each enters loadPending on
\* construction and leaves it only through its onload.
CreatedPlayers == {p \in Calls : p \in loadPending \/ readySeen[p]}

\* Players constructed and not released by dispose().
LivePlayers == CreatedPlayers \ disposedPlayers

\* Utterances with a speak command outstanding at the engine.
OutstandingUtterances == {u \in Calls : queue[u] > 0}

\* C11: at most one player that has been created and not yet released
\* exists, and at most one utterance is outstanding at the engine.
C11_OneLiveHandle ==
  /\ Cardinality(LivePlayers) <= 1
  /\ Cardinality(OutstandingUtterances) <= 1

\* C17: the player a generateSpeech call resolves with is the player that
\* call constructed.
C17_ResolvesWithOwnPlayer ==
  \A c \in Calls : outcome[c] = "resolved" => resolvedWith[c] = c

\* Rejections of a call that had passed the in-progress gate.
AcceptedRejections ==
  { "ComponentsUninitialized", "SourceError", "PlayerNotInitialized",
    "SynthesisFailed", "RoutingFailed", "Cancelled" }

\* C18: when an accepted generateSpeech call is rejected, isGenerating is
\* false after the rejecting step, so the next call is not refused.
C18_RejectionReleasesGate ==
  [][\A c \in Calls :
       (outcome[c] \in {"unborn", "pending"} /\ outcome'[c] \in AcceptedRejections)
         => ~isGenerating']_vars

\* C19: an end or error event of an utterance that is no longer the current
\* one (a later request has been accepted and holds the gate) leaves
\* isGenerating true.
C19_StaleEventKeepsGate ==
  [][\A u \in Calls :
       ( /\ last'.op \in {"onend", "onerror"} /\ last'.call = u
         /\ queue'[u] < queue[u]
         /\ utterance > u
         /\ isGenerating )
         => isGenerating']_vars

\* C20: no utterance is handed to speak() more than once.
C20_SpokenAtMostOnce == \A u \in Calls : speakCount[u] <= 1

\* C12: dispose() never raises, whatever the state (a second call, absent
\* or released handles), and no operation made after dispose() raises on a
\* released or null handle.
C12_DisposeNeverRaises ==
  (last.op = "dispose" \/ audioContext = "closed") => ~last.raised

\* A step that is a stop() call.
StopStep == last'.op = "stop"

\* C13: stop() changes no flag and commands neither the engine nor a player
\* when the session is not generating and has no player; a stop() that
\* directly follows a stop() changes nothing; when generating it sets the
\* cancel flag and commands the engine to cancel; when a player is present
\* it halts that player.
C13_StopContract ==
  [][StopStep =>
       /\ (~isGenerating /\ player = 0)
            => (UNCHANGED <<session, host>> /\ ~last'.flag /\ last'.call = 0)
       /\ last.op = "stop" => UNCHANGED <<session, host>>
       /\ isGenerating => (isCancelled' /\ last'.flag)
       /\ player # 0 => last'.call = player]_vars

\* What a control operation must leave alone besides the rates.
ControlFrame == UNCHANGED <<session, host, calls>>

\* C14: getWaveformData() with the analysis node absent fails with the
\* ComponentsUninitialized error of the session (it returns no buffer, and
\* not by a TypeError raised on the null handle); with an analysis node it
\* returns the buffer; in both cases the session, the host state, the
\* promises and the rates are unchanged.
C14_GetWaveformData ==
  [][last'.op = "getWaveformData" =>
       /\ last'.flag <=> analyser # "null"
       /\ ~last'.raised
       /\ ControlFrame
       /\ UNCHANGED controls]_vars

\* clamp(r, 0.1, 10.0) in 1/120.
ExpectedPlaybackRate(r) == IF r < 12 THEN 12 ELSE IF r > 1200 THEN 1200 ELSE r

\* C15: setPlaybackRate(r) writes clamp(r, 0.1, 10.0) (0 gives 0.1, 100
\* gives 10.0) to the current player if there is one and to the rate field
\* of the current utterance if there is one, each whether or not the other
\* exists, and changes nothing else.
C15_SetPlaybackRate ==
  [][last'.op = "setPlaybackRate" =>
       LET r == last'.call IN
       /\ r = 0 => ExpectedPlaybackRate(r) = 12
       /\ r = 12000 => ExpectedPlaybackRate(r) = 1200
       /\ \A p \in Calls :
            playbackRate'[p] = IF p = player THEN ExpectedPlaybackRate(r)
                                             ELSE playbackRate[p]
       /\ \A u \in Calls :
            rate'[u] = IF u = utterance THEN ExpectedPlaybackRate(r) ELSE rate[u]
       /\ ControlFrame]_vars

C15_Witness ==
  /\ last.op = "setPlaybackRate"
  /\ last.call = 12000
  /\ player # 0 /\ utterance # player
  /\ playbackRate[player] = 1200
  /\ rate[utterance] = 1200
  /\ rate[player] = 12

\* clamp(1 + pitch/12, 0.5, 2.0) in 1/120.
ExpectedPitchRate(pitch) ==
  LET x == 120 + 10 * pitch IN IF x < 60 THEN 60 ELSE IF x > 240 THEN 240 ELSE x

\* C16: setPitch(pitch) writes clamp(1 + pitch/12, 0.5, 2.0) (0 gives 1.0,
\* 24 gives 2.0, -24 gives 0.5) to the playbackRate of the current player
\* only; the rate fields of the utterances, the flags and everything else
\* are unchanged, and without a player nothing changes.
C16_SetPitch ==
  [][last'.op = "setPitch" =>
       LET pitch == last'.call IN
       /\ pitch = 0 => ExpectedPitchRate(pitch) = 120
       /\ pitch = 24 => ExpectedPitchRate(pitch) = 240
       /\ pitch = -24 => ExpectedPitchRate(pitch) = 60
       /\ \A p \in Calls :
            playbackRate'[p] = IF p = player THEN ExpectedPitchRate(pitch)
                                             ELSE playbackRate[p]
       /\ UNCHANGED rate
       /\ ControlFrame]_vars

C16_Witness ==
  /\ last.op = "setPitch"
  /\ last.call = -24
  /\ player # 0
  /\ playbackRate[player] = 60
  /\ rate[utterance] = 1200

====
